---- MODULE Spec2Model ----
(***************************************************************************)
(* A model of four components of the Hyperliquid copy trader:              *)
(*   - TradeExecutor (src/src/copy_engine/executor.py): signing, order     *)
(*     placement, cancellation and the dry-run path;                       *)
(*   - HyperliquidWebSocket (src/src/hyperliquid/websocket.py): the        *)
(*     subscription registry, connect/replay, the listen loop and the      *)
(*     dispatch of inbound frames to the registered handlers;              *)
(*   - TelegramBot (src/src/telegram_bot/bot.py): the authorization of     *)
(*     commands and button presses and the callbacks they invoke;          *)
(*   - NotificationService (src/src/telegram_bot/notifications.py): the    *)
(*     enabled flag and the delivery of messages.                          *)
(* The components share no state, so each has specifications of its own    *)
(* over the module's variables: ExecSpec for the executor; WsSpec          *)
(* (subscriptions and connections), RestartSpec (stop and run again),      *)
(* DispatchSpec (inbound frames) and LoopSpec (the listen loop, with       *)
(* fairness) for the stream; BotSpec for the bot; NotifySpec for the       *)
(* notification service.                                                   *)
(***************************************************************************)
EXTENDS Integers, Sequences, FiniteSets, TLC

VARIABLES
    \* ---- TradeExecutor ----
    wallet_address,   \* self.wallet_address (lower-cased)
    private_key,      \* self.private_key
    dry_run,          \* self.dry_run
    account,          \* self.account: "none" or the key the account was made from
    now,              \* the wall clock, in integer milliseconds
    nonces,           \* nonces of the signed actions, in the order _sign_action returned them
    signatures,       \* the signatures _sign_action has produced so far
    simIds,           \* order ids returned by _simulate_order, in call order
    httpCalls,        \* number of session.post calls issued so far
    nCalls,           \* number of public executor calls made so far
    last,             \* the last public call: operation, arguments, requests, reply, result
    faulted,          \* a POST of an earlier or the last public call raised
    \* ---- HyperliquidWebSocket ----
    ws,               \* self.ws: "none", "open" or "closed"
    is_running,       \* self.is_running
    subscriptions,    \* self.subscriptions: its channel keys in insertion order
    callbacks,        \* self.callbacks: channel key -> handler, or NoHandler
    sent,             \* subscribe frames written on the current connection, per channel
    lpc,              \* where the listen() coroutine stands
    replayIdx,        \* connect(): index of the last subscription the replay loop sent
    replayLen,        \* connect(): size of self.subscriptions when the replay iterator was made
    nConns,           \* connections opened so far
    nSubs,            \* subscribe calls made so far
    subDuringReplay,  \* a subscribe call ran while the running connect() was replaying
    lastSub,          \* the last subscribe call: its channel, self.ws before it, frames before it
    \* ---- HyperliquidWebSocket: inbound frames ----
    inbox,            \* frames received on the connection that listen() has not taken yet
    nFrames,          \* frames received so far
    cur,              \* the frame _handle_message was last called with
    seq,              \* frames listen() has handed to _handle_message so far
    dispIdx,          \* _handle_message: index in self.callbacks of the handler being awaited
    dispLen,          \* _handle_message: size of self.callbacks when its iterator was made
    calls,            \* handler invocations made for the last frame taken, with how each ended
    openCalls,        \* numbers of the frames that have a handler invocation in progress
    stopped,          \* stop() was invoked since the last run()
    \* ---- TelegramBot ----
    allowed_chat_id,  \* self.allowed_chat_id, a string
    configured,       \* the callback attributes the application has set
    update,           \* the last update handled: its chat, command or button data
    effects,          \* what its handler did, in order: sends and callback invocations
    nUpdates,         \* updates handled so far
    \* ---- NotificationService ----
    enabled,          \* self.enabled
    sends             \* the send_message calls made so far, with what became of each

execVars == <<wallet_address, private_key, dry_run, account, now, nonces, signatures, simIds,
              httpCalls, nCalls, last, faulted>>
wsVars == <<ws, is_running, subscriptions, callbacks, sent, lpc, replayIdx, replayLen,
            nConns, nSubs, subDuringReplay, lastSub>>
dispVars == <<inbox, nFrames, cur, seq, dispIdx, dispLen, calls, openCalls, stopped>>
botVars == <<allowed_chat_id, configured, update, effects, nUpdates>>
notifyVars == <<enabled, sends>>
vars == <<execVars, wsVars, dispVars, botVars, notifyVars>>

(***************************************************************************)
(* Bounds of the model.                                                    *)
(***************************************************************************)
MaxCalls == 2        \* public executor calls per behaviour
MaxTicks == 2        \* clock advances per behaviour
MaxConns == 2        \* connections opened per behaviour
MaxSubCalls == 3     \* subscribe calls per behaviour
MaxFrames == 2       \* inbound frames per behaviour
MaxUpdates == 2      \* Telegram updates per behaviour
MaxSends == 3        \* send_message calls per behaviour

(***************************************************************************)
(* Program constants.                                                      *)
(***************************************************************************)
MsPerSecond == 1000  \* int(time.time() * 1000) against int(time.time())
HttpOk == 200        \* response.status == 200

(***************************************************************************)
(* Input domains.                                                          *)
(***************************************************************************)
Symbols == {"BTC", "ETH"}
Sides == {"buy", "sell"}                 \* OrderSide.BUY, OrderSide.SELL
Sizes == {1}
Prices == {100, 250}
Leverages == {1, 3}
Oids == {77}
Keys == {"", "kA", "kB"}                 \* "" is a missing private key
Wallets == {"0xA", "0xb"}
HttpCodes == {HttpOk, 400}
ClockSteps == {1, MsPerSecond}
StartMs == 0

None3 == <<"None", "", 0>>               \* Python's None as an order id

(***************************************************************************)
(* Addresses.  Account.from_key(k).address is a checksummed (mixed-case)   *)
(* address; str.lower() maps it to lower case.                             *)
(***************************************************************************)
KeyAddress(k) == IF k = "kA" THEN "0xA" ELSE "0xB"

Lower(a) ==
    CASE a = "0xA" -> "0xa"
      [] a = "0xB" -> "0xb"
      [] OTHER -> a

Construct_NoAddressCheck(wallet, key, dry) ==
    LET w == Lower(wallet) IN
    IF key # "" /\ ~dry
    THEN [raised |-> FALSE, wallet_address |-> w, private_key |-> key,
          dry_run |-> dry, account |-> key]
    ELSE IF ~dry
    THEN [raised |-> TRUE, wallet_address |-> w, private_key |-> key,
          dry_run |-> dry, account |-> "none"]
    ELSE [raised |-> FALSE, wallet_address |-> w, private_key |-> key,
          dry_run |-> dry, account |-> "none"]

Construct_AccountInDryRun(wallet, key, dry) ==
    LET w == Lower(wallet) IN
    IF key # ""
    THEN IF Lower(KeyAddress(key)) # w
         THEN [raised |-> TRUE, wallet_address |-> w, private_key |-> key,
               dry_run |-> dry, account |-> "none"]
         ELSE [raised |-> FALSE, wallet_address |-> w, private_key |-> key,
               dry_run |-> dry, account |-> key]
    ELSE IF ~dry
    THEN [raised |-> TRUE, wallet_address |-> w, private_key |-> key,
          dry_run |-> dry, account |-> "none"]
    ELSE [raised |-> FALSE, wallet_address |-> w, private_key |-> key,
          dry_run |-> dry, account |-> "none"]

(***************************************************************************)
(* TradeExecutor.__init__: the fields after construction, or raised.       *)
(***************************************************************************)
Construct(wallet, key, dry) ==
    LET w == Lower(wallet) IN
    IF key # "" /\ ~dry
    THEN IF Lower(KeyAddress(key)) # w
         THEN [raised |-> TRUE, wallet_address |-> w, private_key |-> key,
               dry_run |-> dry, account |-> "none"]
         ELSE [raised |-> FALSE, wallet_address |-> w, private_key |-> key,
               dry_run |-> dry, account |-> key]
    ELSE IF ~dry
    THEN [raised |-> TRUE, wallet_address |-> w, private_key |-> key,
          dry_run |-> dry, account |-> "none"]
    ELSE [raised |-> FALSE, wallet_address |-> w, private_key |-> key,
          dry_run |-> dry, account |-> "none"]

(***************************************************************************)
(* HTTP outcomes of one session.post: an exception (timeout, connection    *)
(* error, undecodable body), or a reply with a status code and, for 200,   *)
(* a JSON body {status, response: {data: {statuses: [...]}}}.  A request   *)
(* carries one order, so a reply carries at most one status entry.         *)
(***************************************************************************)
Entries ==
    [kind : {"resting", "filled"}, oid : Oids] \cup {[kind |-> "error", oid |-> 0]}

NoBody == [status |-> "-", hasData |-> FALSE, statuses |-> <<>>]

OkBodies ==
    {[status |-> "ok", hasData |-> FALSE, statuses |-> <<>>]}
    \cup {[status |-> "ok", hasData |-> TRUE, statuses |-> <<>>]}
    \cup {[status |-> "ok", hasData |-> TRUE, statuses |-> <<e>>] : e \in Entries}

ErrBody == [status |-> "err", hasData |-> FALSE, statuses |-> <<>>]

NoCall == [kind |-> "nocall", http |-> 0, body |-> NoBody]
Raised == [kind |-> "exception", http |-> 0, body |-> NoBody]

OrderOutcomes ==
    {Raised}
    \cup {[kind |-> "http", http |-> c, body |-> NoBody] : c \in HttpCodes \ {HttpOk}}
    \cup {[kind |-> "http", http |-> HttpOk, body |-> b] : b \in OkBodies \cup {ErrBody}}

PlainOutcomes ==
    {Raised} \cup {[kind |-> "http", http |-> c, body |-> NoBody] : c \in HttpCodes}

(***************************************************************************)
(* TradeExecutor._sign_action at clock reading t: it raises without an     *)
(* account; the nonce is the clock reading; the signature is made over a   *)
(* fixed message.  Every caller signs inside its try block and POSTs what  *)
(* was signed: SignedPost is the requests that leaves on the wire.         *)
(***************************************************************************)
CanSign == account # "none"

\* structured_data["message"]: the same for every action.
ZeroConnectionId == <<"0x", 0>>          \* "0x" + "0" * 64
AgentMessage == [source |-> "a", connectionId |-> ZeroConnectionId]

\* account.sign_typed_data(domain, types, message) with the fixed domain and
\* types: r, s, v are determined by the signer's key and the message.
SignTypedData(signer, message) == <<"sig", signer, message>>

SignAction_BindsNonce(action, t) ==
    [action |-> action, nonce |-> t,
     signature |-> SignTypedData(account, [source |-> "a", connectionId |-> <<"0x", t>>]),
     vaultAddress |-> "None"]

SignAction(action, t) ==
    [action |-> action, nonce |-> t, signature |-> SignTypedData(account, AgentMessage),
     vaultAddress |-> "None"]

SignedPost(action, t) ==
    IF CanSign THEN <<SignAction(action, t)>> ELSE <<>>

FloatStr(x) == <<"float", x>>            \* str(float(x)): "100.0" for 100
Literal(x) == <<"str", x>>               \* a string literal such as "0"

Action(type, coin, isBuy, px, sz, ro, tif, lev, oid) ==
    [type |-> type, a |-> wallet_address, c |-> coin, b |-> isBuy, p |-> px,
     s |-> sz, r |-> ro, tif |-> tif, leverage |-> lev, o |-> oid]

LeverageAction(symbol, leverage) ==
    Action("updateLeverage", symbol, FALSE, Literal(0), Literal(0), FALSE, "-", leverage, 0)

(***************************************************************************)
(* TradeExecutor._update_leverage: one signed POST; True on 200, False on  *)
(* any other status or exception.                                          *)
(***************************************************************************)
UpdateLeverage(symbol, leverage, out, t) ==
    [reqs |-> SignedPost(LeverageAction(symbol, leverage), t),
     result |-> (CanSign /\ out.kind = "http" /\ out.http = HttpOk)]

(***************************************************************************)
(* TradeExecutor._simulate_order: the id is built from the symbol and the  *)
(* clock in whole seconds.                                                 *)
(***************************************************************************)
SimulateOrder(symbol, t) == <<"sim", symbol, t \div MsPerSecond>>

(***************************************************************************)
(* Results of the public calls, all of one shape: an order id, None, a     *)
(* bool or a count.                                                        *)
(***************************************************************************)
OidResult(oid) == <<"oid", "", oid>>
Executed == <<"executed", "", 0>>
BoolResult(b) == IF b THEN <<"True", "", 1>> ELSE <<"False", "", 0>>
CountResult(n) == <<"count", "", n>>
Propagated == <<"raise", "", 0>>         \* the call raised to its caller

(***************************************************************************)
(* result["response"]["data"].get("statuses", [{}])[0].get("resting",      *)
(* {}).get("oid"): the oid of a resting first entry, None for any other    *)
(* entry; an empty list raises IndexError, which the caller's except turns *)
(* into None.                                                              *)
(***************************************************************************)
RestingOid(body) ==
    IF body.statuses = <<>> THEN None3
    ELSE IF body.statuses[1].kind = "resting" THEN OidResult(body.statuses[1].oid)
    ELSE None3

MarketReply_NoneIsExecuted(out) ==
    IF out.kind # "http" THEN None3
    ELSE IF out.http # HttpOk THEN None3
    ELSE IF out.body.status = "ok" /\ out.body.hasData
         THEN IF out.body.statuses = <<>> THEN None3
              ELSE IF RestingOid(out.body) = None3 THEN Executed
              ELSE RestingOid(out.body)
    ELSE Executed

(***************************************************************************)
(* execute_market_order, lines 224-242: what the call returns for the      *)
(* outcome of its order POST.                                              *)
(***************************************************************************)
MarketReply(out) ==
    IF out.kind # "http" THEN None3
    ELSE IF out.http # HttpOk THEN None3
    ELSE IF out.body.status = "ok" /\ out.body.hasData THEN RestingOid(out.body)
    ELSE Executed

(***************************************************************************)
(* execute_limit_order, lines 308-326.                                     *)
(***************************************************************************)
LimitReply(out) ==
    IF out.kind # "http" THEN None3
    ELSE IF out.http # HttpOk THEN None3
    ELSE IF out.body.status = "ok" /\ out.body.hasData THEN RestingOid(out.body)
    ELSE None3

\* _update_leverage returned False: a reply other than 200, or an exception.
LeverageFailed(levOut) ==
    \/ levOut = Raised
    \/ levOut.kind = "http" /\ levOut.http # HttpOk

MarketAction(symbol, side, size, reduce_only) ==
    Action("order", symbol, side = "buy", Literal(0), FloatStr(size), reduce_only,
           "Ioc", 0, 0)

LimitAction_AlwaysGtc(symbol, side, size, price, reduce_only, post_only) ==
    Action("order", symbol, side = "buy", FloatStr(price), FloatStr(size), reduce_only,
           "Gtc", 0, 0)

LimitAction(symbol, side, size, price, reduce_only, post_only) ==
    Action("order", symbol, side = "buy", FloatStr(price), FloatStr(size), reduce_only,
           IF post_only THEN "Alo" ELSE "Gtc", 0, 0)

(***************************************************************************)
(* The leverage step both order calls start with: issued only when         *)
(* leverage > 1, its result ignored.                                       *)
(***************************************************************************)
LeverageStep(symbol, leverage, levOut, t) ==
    IF leverage > 1 THEN UpdateLeverage(symbol, leverage, levOut, t).reqs ELSE <<>>

MarketOrder_RetryOnException(symbol, side, size, leverage, reduce_only, levOut, out, t, t2) ==
    IF dry_run
    THEN [reqs |-> <<>>, result |-> SimulateOrder(symbol, t), sim |-> TRUE]
    ELSE LET req == SignedPost(MarketAction(symbol, side, size, reduce_only), t2) IN
         [reqs |-> LeverageStep(symbol, leverage, levOut, t)
                   \o (IF out.kind = "exception" THEN req \o req ELSE req),
          result |-> IF CanSign THEN MarketReply(out) ELSE None3, sim |-> FALSE]

MarketOrder_AbortsOnLeverageFailure(symbol, side, size, leverage, reduce_only, levOut, out, t, t2) ==
    IF dry_run
    THEN [reqs |-> <<>>, result |-> SimulateOrder(symbol, t), sim |-> TRUE]
    ELSE IF leverage > 1 /\ LeverageFailed(levOut)
    THEN [reqs |-> LeverageStep(symbol, leverage, levOut, t), result |-> None3,
          sim |-> FALSE]
    ELSE [reqs |-> LeverageStep(symbol, leverage, levOut, t)
                   \o SignedPost(MarketAction(symbol, side, size, reduce_only), t2),
          result |-> IF CanSign THEN MarketReply(out) ELSE None3, sim |-> FALSE]

(***************************************************************************)
(* execute_market_order: the requests it sends, in order, and its result.  *)
(* t is the clock at the call, t2 the clock when the order is signed.      *)
(***************************************************************************)
MarketOrder(symbol, side, size, leverage, reduce_only, levOut, out, t, t2) ==
    IF dry_run
    THEN [reqs |-> <<>>, result |-> SimulateOrder(symbol, t), sim |-> TRUE]
    ELSE [reqs |-> LeverageStep(symbol, leverage, levOut, t)
                   \o SignedPost(MarketAction(symbol, side, size, reduce_only), t2),
          result |-> IF CanSign THEN MarketReply(out) ELSE None3, sim |-> FALSE]

LimitOrder_OrderBeforeLeverage(symbol, side, size, price, leverage, reduce_only, post_only, levOut, out, t, t2) ==
    IF dry_run
    THEN [reqs |-> <<>>, result |-> SimulateOrder(symbol, t), sim |-> TRUE]
    ELSE [reqs |-> SignedPost(LimitAction(symbol, side, size, price, reduce_only,
                                           post_only), t)
                   \o (IF leverage > 1
                       THEN UpdateLeverage(symbol, leverage, levOut, t2).reqs ELSE <<>>),
          result |-> IF CanSign THEN LimitReply(out) ELSE None3, sim |-> FALSE]

(***************************************************************************)
(* execute_limit_order.                                                    *)
(***************************************************************************)
LimitOrder(symbol, side, size, price, leverage, reduce_only, post_only, levOut, out, t, t2) ==
    IF dry_run
    THEN [reqs |-> <<>>, result |-> SimulateOrder(symbol, t), sim |-> TRUE]
    ELSE [reqs |-> LeverageStep(symbol, leverage, levOut, t)
                   \o SignedPost(LimitAction(symbol, side, size, price, reduce_only,
                                           post_only), t2),
          result |-> IF CanSign THEN LimitReply(out) ELSE None3, sim |-> FALSE]

ClosePosition_NotReduceOnly(symbol, size, side, out, t) ==
    IF dry_run
    THEN [reqs |-> <<>>, result |-> <<"dry_run_close", symbol, t \div MsPerSecond>>,
          sim |-> FALSE]
    ELSE MarketOrder(symbol, side, size, 1, FALSE, NoCall, out, t, t)

(***************************************************************************)
(* close_position: a reduce-only market order with the side it was given   *)
(* and the default leverage of 1; in dry-run a synthetic close id.         *)
(***************************************************************************)
ClosePosition(symbol, size, side, out, t) ==
    IF dry_run
    THEN [reqs |-> <<>>, result |-> <<"dry_run_close", symbol, t \div MsPerSecond>>,
          sim |-> FALSE]
    ELSE MarketOrder(symbol, side, size, 1, TRUE, NoCall, out, t, t)

CancelAction(order_id) ==
    Action("cancel", "-", FALSE, Literal(0), Literal(0), FALSE, "-", 0, order_id)

\* Replies to a cancel POST: a 200 reply carries a body whose status is "ok"
\* or "err".
CancelOutcomes ==
    {Raised}
    \cup {[kind |-> "http", http |-> c, body |-> NoBody] : c \in HttpCodes \ {HttpOk}}
    \cup {[kind |-> "http", http |-> HttpOk, body |-> b] :
          b \in {[status |-> "ok", hasData |-> FALSE, statuses |-> <<>>], ErrBody}}

CancelOrder_ChecksBodyStatus(symbol, order_id, out, t) ==
    IF dry_run
    THEN [reqs |-> <<>>, result |-> BoolResult(TRUE), sim |-> FALSE]
    ELSE [reqs |-> SignedPost(CancelAction(order_id), t),
          result |-> BoolResult(CanSign /\ out.kind = "http" /\ out.http = HttpOk
                                /\ out.body.status = "ok"),
          sim |-> FALSE]

CancelOrder_PostsInDryRun(symbol, order_id, out, t) ==
    IF dry_run
    THEN [reqs |-> <<SignAction(CancelAction(order_id), t)>>, result |-> BoolResult(TRUE),
          sim |-> FALSE]
    ELSE [reqs |-> SignedPost(CancelAction(order_id), t),
          result |-> BoolResult(CanSign /\ out.kind = "http" /\ out.http = HttpOk),
          sim |-> FALSE]

(***************************************************************************)
(* cancel_order: True in dry-run; live, one signed cancel POST, True iff   *)
(* the reply's status is 200.                                              *)
(***************************************************************************)
CancelOrder(symbol, order_id, out, t) ==
    IF dry_run
    THEN [reqs |-> <<>>, result |-> BoolResult(TRUE), sim |-> FALSE]
    ELSE [reqs |-> SignedPost(CancelAction(order_id), t),
          result |-> BoolResult(CanSign /\ out.kind = "http" /\ out.http = HttpOk),
          sim |-> FALSE]

CancelAllOrders_Propagates(symbol, out, t) ==
    IF dry_run
    THEN [reqs |-> <<>>, result |-> CountResult(0), sim |-> FALSE]
    ELSE [reqs |-> SignedPost(Action("cancelByCloid", symbol, FALSE, Literal(0),
                                     Literal(0), FALSE, "-", 0, 0), t),
          result |-> IF out.kind = "exception" THEN Propagated
                     ELSE CountResult(IF CanSign /\ out.kind = "http" /\ out.http = HttpOk
                                      THEN Len(out.body.statuses) ELSE 0),
          sim |-> FALSE]

(***************************************************************************)
(* cancel_all_orders: 0 in dry-run; live, one signed cancelByCloid POST,   *)
(* the number of status entries of a 200 reply, else 0.                    *)
(***************************************************************************)
CancelAllOrders(symbol, out, t) ==
    IF dry_run
    THEN [reqs |-> <<>>, result |-> CountResult(0), sim |-> FALSE]
    ELSE [reqs |-> SignedPost(Action("cancelByCloid", symbol, FALSE, Literal(0),
                                     Literal(0), FALSE, "-", 0, 0), t),
          result |-> CountResult(IF CanSign /\ out.kind = "http" /\ out.http = HttpOk
                                 THEN Len(out.body.statuses) ELSE 0),
          sim |-> FALSE]

CancelAllOutcomes ==
    {Raised}
    \cup {[kind |-> "http", http |-> c, body |-> NoBody] : c \in HttpCodes \ {HttpOk}}
    \cup {[kind |-> "http", http |-> HttpOk,
           body |-> [status |-> "ok", hasData |-> TRUE, statuses |-> st]] :
          st \in {<<>>, <<[kind |-> "success", oid |-> 0], [kind |-> "success", oid |-> 0]>>}}

(***************************************************************************)
(* The executor's state machine.  The executor's fields never change after *)
(* construction and a call reads nothing but them and the clock, so calls  *)
(* of concurrent tasks are independent: each public call is one action,    *)
(* taken at the clock reading at which it signs.                           *)
(***************************************************************************)
TickCount(t) == ((t - StartMs) % MsPerSecond) + ((t - StartMs) \div MsPerSecond)

NoLast ==
    [op |-> "none", symbol |-> "-", side |-> "-", leverage |-> 0, reduce_only |-> FALSE,
     post_only |-> FALSE, price |-> 0, levOut |-> NoCall, out |-> NoCall, reqs |-> <<>>,
     result |-> None3, at |-> 0, afterFault |-> FALSE]

ExecInit ==
    \E w \in Wallets, k \in Keys, d \in BOOLEAN :
        LET c == Construct(w, k, d) IN
        /\ ~c.raised
        /\ wallet_address = c.wallet_address
        /\ private_key = c.private_key
        /\ dry_run = c.dry_run
        /\ account = c.account
        /\ now = StartMs
        /\ nonces = <<>>
        /\ signatures = {}
        /\ simIds = <<>>
        /\ httpCalls = 0
        /\ nCalls = 0
        /\ last = NoLast
        /\ faulted = FALSE

Nonces(reqs) == [i \in 1..Len(reqs) |-> reqs[i].nonce]

\* What every public call leaves behind: the clock after it, its nonces, its
\* simulated id, its POSTs and the record of the call.
Record(r, rec, t2) ==
    /\ now' = t2
    /\ nonces' = nonces \o Nonces(r.reqs)
    /\ signatures' = signatures \cup {r.reqs[i].signature : i \in 1..Len(r.reqs)}
    /\ simIds' = IF r.sim THEN Append(simIds, r.result) ELSE simIds
    /\ httpCalls' = httpCalls + Len(r.reqs)
    /\ nCalls' = nCalls + 1
    /\ last' = [rec EXCEPT !.reqs = r.reqs, !.result = r.result, !.at = now,
                            !.afterFault = faulted]
    /\ faulted' = (faulted \/ rec.out = Raised \/ rec.levOut = Raised)
    /\ UNCHANGED <<wallet_address, private_key, dry_run, account>>
    /\ UNCHANGED <<wsVars, dispVars, botVars, notifyVars>>

\* The outcomes of the POSTs a call makes: none in dry-run; a leverage POST
\* only when leverage > 1, and then its round trip takes at least one step
\* of the clock before the order is signed.
LevOutcomes(leverage) ==
    IF dry_run \/ leverage <= 1 THEN {NoCall} ELSE PlainOutcomes

SignDelays(leverage) ==
    IF dry_run \/ leverage <= 1 THEN {0}
    ELSE {d \in ClockSteps : TickCount(now + d) <= MaxTicks}

\* A call starts once the caller has taken the previous call's result.
CanCall == nCalls < MaxCalls /\ last.op = "none"

\* The caller takes the result of the call that just returned.
Return ==
    /\ last.op # "none"
    /\ last' = NoLast
    /\ UNCHANGED <<wallet_address, private_key, dry_run, account, now, nonces,
                   signatures, simIds, httpCalls, nCalls, faulted>>
    /\ UNCHANGED <<wsVars, dispVars, botVars, notifyVars>>

Tick ==
    /\ \E d \in ClockSteps :
        /\ TickCount(now + d) <= MaxTicks
        /\ now' = now + d
    /\ UNCHANGED <<wallet_address, private_key, dry_run, account, nonces, signatures,
                   simIds, httpCalls, nCalls, last, faulted>>
    /\ UNCHANGED <<wsVars, dispVars, botVars, notifyVars>>

ExecuteMarketOrder ==
    /\ CanCall
    /\ \E symbol \in Symbols, side \in Sides, size \in Sizes, leverage \in Leverages,
          reduce_only \in BOOLEAN :
       \E levOut \in LevOutcomes(leverage), dt \in SignDelays(leverage),
          out \in (IF dry_run THEN {NoCall} ELSE OrderOutcomes) :
          Record(MarketOrder(symbol, side, size, leverage, reduce_only, levOut, out,
                             now, now + dt),
                 [NoLast EXCEPT !.op = "execute_market_order", !.symbol = symbol,
                                !.side = side, !.leverage = leverage,
                                !.reduce_only = reduce_only, !.levOut = levOut,
                                !.out = out],
                 now + dt)

ExecuteLimitOrder ==
    /\ CanCall
    /\ \E symbol \in Symbols, side \in Sides, size \in Sizes, price \in Prices,
          leverage \in Leverages, reduce_only \in BOOLEAN, post_only \in BOOLEAN :
       \E levOut \in LevOutcomes(leverage), dt \in SignDelays(leverage),
          out \in (IF dry_run THEN {NoCall} ELSE OrderOutcomes) :
          Record(LimitOrder(symbol, side, size, price, leverage, reduce_only, post_only,
                            levOut, out, now, now + dt),
                 [NoLast EXCEPT !.op = "execute_limit_order", !.symbol = symbol,
                                !.side = side, !.leverage = leverage, !.price = price,
                                !.reduce_only = reduce_only, !.post_only = post_only,
                                !.levOut = levOut, !.out = out],
                 now + dt)

ClosePositionCall ==
    /\ CanCall
    /\ \E symbol \in Symbols, side \in Sides, size \in Sizes,
          out \in (IF dry_run THEN {NoCall} ELSE OrderOutcomes) :
          Record(ClosePosition(symbol, size, side, out, now),
                 [NoLast EXCEPT !.op = "close_position", !.symbol = symbol,
                                !.side = side, !.out = out],
                 now)

CancelOrderCall ==
    /\ CanCall
    /\ \E symbol \in Symbols, order_id \in Oids,
          out \in (IF dry_run THEN {NoCall} ELSE CancelOutcomes) :
          Record(CancelOrder(symbol, order_id, out, now),
                 [NoLast EXCEPT !.op = "cancel_order", !.symbol = symbol, !.out = out],
                 now)

\* _update_leverage called on its own: without an account _sign_action
\* raises inside its try block and the call returns False with no POST.
UpdateLeverageCall ==
    /\ CanCall
    /\ \E symbol \in Symbols, leverage \in Leverages,
          out \in (IF CanSign THEN PlainOutcomes ELSE {NoCall}) :
          LET u == UpdateLeverage(symbol, leverage, out, now) IN
          Record([reqs |-> u.reqs, result |-> BoolResult(u.result), sim |-> FALSE],
                 [NoLast EXCEPT !.op = "_update_leverage", !.symbol = symbol,
                                !.leverage = leverage, !.out = out],
                 now)

CancelAllOrdersCall ==
    /\ CanCall
    /\ \E symbol \in Symbols \cup {"None"},
          out \in (IF dry_run THEN {NoCall} ELSE CancelAllOutcomes) :
          Record(CancelAllOrders(symbol, out, now),
                 [NoLast EXCEPT !.op = "cancel_all_orders", !.symbol = symbol,
                                !.out = out],
                 now)

ExecNext ==
    \/ Tick
    \/ Return
    \/ ExecuteMarketOrder
    \/ ExecuteLimitOrder
    \/ ClosePositionCall
    \/ CancelOrderCall
    \/ CancelAllOrdersCall
    \/ UpdateLeverageCall

(***************************************************************************)
(* HyperliquidWebSocket.  Channel keys are strings, modelled as sequences  *)
(* of characters: "user:" + address, "trades:" + symbol, "allMids".        *)
(***************************************************************************)
UserPrefix == <<"u", "s", "e", "r", ":">>
TradesPrefix == <<"t", "r", "a", "d", "e", "s", ":">>
AllMidsChannel == <<"a", "l", "l", "M", "i", "d", "s">>

Addresses == {<<"0", "x", "A">>}
Coins == {<<"B", "T", "C">>}
Handlers == {"h1", "h2"}
NoHandler == "None"              \* callback=None

\* The subscribe frames: {"method": "subscribe", "subscription": {type, ...}}.
UserSub(address) == [method |-> "subscribe", type |-> "userEvents", param |-> address]
TradesSub(symbol) == [method |-> "subscribe", type |-> "trades", param |-> symbol]
AllMidsSub == [method |-> "subscribe", type |-> "allMids", param |-> <<>>]

Frames ==
    {UserSub(a) : a \in Addresses} \cup {TradesSub(c) : c \in Coins} \cup {AllMidsSub}

NoFrames == [f \in Frames |-> 0]

DictPut_AlwaysAppends(items, key, value) ==
    Append(items, [key |-> key, value |-> value])

\* dict[key] = value on a dict kept as its items in insertion order: a new
\* key goes last, an existing key keeps its place.
DictPut(items, key, value) ==
    IF \E i \in 1..Len(items) : items[i].key = key
    THEN [i \in 1..Len(items) |->
            IF items[i].key = key THEN [key |-> key, value |-> value] ELSE items[i]]
    ELSE Append(items, [key |-> key, value |-> value])

SendSubscription_IgnoresClosed(conn, counts, data) ==
    IF conn # "none" THEN [counts EXCEPT ![data] = @ + 1] ELSE counts

(***************************************************************************)
(* _send_subscription(data) on connection conn with the frame counts so    *)
(* far: nothing when self.ws is None; ws.send raises on a closed           *)
(* connection and the exception is swallowed; on an open one the frame is  *)
(* written.  The value is the frame counts afterwards.                     *)
(***************************************************************************)
SendSubscription(conn, counts, data) ==
    IF conn = "open" THEN [counts EXCEPT ![data] = @ + 1] ELSE counts

\* while self.is_running: if not self.ws or self.ws.closed: connect() ...
\* async for message in self.ws: where listen() stands next, given the flag
\* and the connection.
LoopTop(running, conn) ==
    IF ~running THEN "idle"
    ELSE IF conn \in {"none", "closed"} THEN "opening"
    ELSE "recv"

NoSub == [n |-> 0, key |-> <<>>, data |-> AllMidsSub, callback |-> NoHandler,
          wsBefore |-> "none", sentBefore |-> 0, conn |-> 0]

NoMessage == [kind |-> "none", hasChannel |-> FALSE, channel |-> <<>>]

WsInit ==
    /\ ws = "none"
    /\ is_running = FALSE
    /\ subscriptions = <<>>
    /\ callbacks = <<>>
    /\ sent = NoFrames
    /\ lpc = "idle"
    /\ replayIdx = 0
    /\ replayLen = 0
    /\ nConns = 0
    /\ nSubs = 0
    /\ subDuringReplay = FALSE
    /\ lastSub = NoSub
    /\ inbox = <<>>
    /\ nFrames = 0
    /\ cur = NoMessage
    /\ seq = 0
    /\ dispIdx = 0
    /\ dispLen = 0
    /\ calls = <<>>
    /\ openCalls = {}
    /\ stopped = FALSE

(***************************************************************************)
(* subscribe_user / subscribe_trades / subscribe_all_mids share one body:  *)
(* register the subscription, register the callback when one is given,     *)
(* and send the frame if self.ws is set.                                   *)
(***************************************************************************)
Subscribe(channel, data, callback) ==
    /\ nSubs < MaxSubCalls
    /\ subscriptions' = DictPut(subscriptions, channel, data)
    /\ callbacks' = IF callback # NoHandler THEN DictPut(callbacks, channel, callback)
                    ELSE callbacks
    /\ sent' = IF ws # "none" THEN SendSubscription(ws, sent, data) ELSE sent
    /\ nSubs' = nSubs + 1
    /\ subDuringReplay' = (subDuringReplay \/ lpc = "replay")
    /\ lastSub' = [n |-> nSubs + 1, key |-> channel, data |-> data,
                   callback |-> callback, wsBefore |-> ws,
                   sentBefore |-> sent[data], conn |-> nConns]
    /\ UNCHANGED <<ws, is_running, lpc, replayIdx, replayLen, nConns>>
    /\ UNCHANGED <<execVars, dispVars, botVars, notifyVars>>

SubscribeUser ==
    \E address \in Addresses, callback \in Handlers \cup {NoHandler} :
        Subscribe(UserPrefix \o address, UserSub(address), callback)

SubscribeTrades ==
    \E symbol \in Coins, callback \in Handlers \cup {NoHandler} :
        Subscribe(TradesPrefix \o symbol, TradesSub(symbol), callback)

SubscribeAllMids ==
    \E callback \in Handlers \cup {NoHandler} :
        Subscribe(AllMidsChannel, AllMidsSub, callback)

(***************************************************************************)
(* run(): sets is_running and enters listen(), which checks the flag and   *)
(* the connection and starts connect() or starts receiving.                *)
(***************************************************************************)
Run ==
    /\ lpc = "idle"
    /\ is_running' = TRUE
    /\ lpc' = LoopTop(TRUE, ws)
    /\ stopped' = FALSE
    /\ UNCHANGED <<ws, subscriptions, callbacks, sent, replayIdx, replayLen, nConns,
                   nSubs, subDuringReplay, lastSub>>
    /\ UNCHANGED <<inbox, nFrames, cur, seq, dispIdx, dispLen, calls, openCalls>>
    /\ UNCHANGED <<execVars, botVars, notifyVars>>

(***************************************************************************)
(* connect(), after websockets.connect returned a connection: self.ws and  *)
(* is_running are set, the replay loop takes its iterator and sends the    *)
(* first subscription; with none registered connect() returns and listen() *)
(* starts receiving.                                                       *)
(***************************************************************************)
ConnectOpened ==
    /\ lpc = "opening"
    /\ nConns < MaxConns
    /\ ws' = "open"
    /\ is_running' = TRUE
    /\ nConns' = nConns + 1
    /\ subDuringReplay' = FALSE
    /\ IF subscriptions = <<>>
       THEN /\ sent' = NoFrames
            /\ lpc' = "recv"
            /\ replayIdx' = 0
            /\ replayLen' = 0
       ELSE /\ sent' = SendSubscription("open", NoFrames, subscriptions[1].value)
            /\ lpc' = "replay"
            /\ replayIdx' = 1
            /\ replayLen' = Len(subscriptions)
    /\ inbox' = <<>>
    /\ UNCHANGED <<subscriptions, callbacks, nSubs, lastSub>>
    /\ UNCHANGED <<nFrames, cur, seq, dispIdx, dispLen, calls, openCalls, stopped>>
    /\ UNCHANGED <<execVars, botVars, notifyVars>>

\* websockets.connect raised: connect() re-raises, listen() logs and sleeps.
ConnectFailed ==
    /\ lpc = "opening"
    /\ lpc' = "sleep"
    /\ UNCHANGED <<ws, is_running, subscriptions, callbacks, sent, replayIdx, replayLen,
                   nConns, nSubs, subDuringReplay, lastSub>>
    /\ UNCHANGED <<execVars, dispVars, botVars, notifyVars>>

ReplayStep_SkipsSend ==
    /\ lpc = "replay"
    /\ IF Len(subscriptions) # replayLen
       THEN /\ lpc' = "sleep"
            /\ replayIdx' = 0
            /\ replayLen' = 0
       ELSE IF replayIdx = replayLen
       THEN /\ lpc' = "recv"
            /\ replayIdx' = 0
            /\ replayLen' = 0
       ELSE /\ lpc' = "replay"
            /\ replayIdx' = replayIdx + 1
            /\ replayLen' = replayLen
    /\ UNCHANGED <<ws, is_running, subscriptions, callbacks, sent, nConns, nSubs,
                   subDuringReplay, lastSub>>
    /\ UNCHANGED <<execVars, dispVars, botVars, notifyVars>>

(***************************************************************************)
(* connect()'s replay loop, resumed after a send: the dict iterator raises *)
(* RuntimeError if the dict changed size since it was made (connect()      *)
(* re-raises, listen() sleeps); at the end connect() returns and listen()  *)
(* starts receiving; else the next subscription is sent.                   *)
(***************************************************************************)
ReplayStep ==
    /\ lpc = "replay"
    /\ IF Len(subscriptions) # replayLen
       THEN /\ lpc' = "sleep"
            /\ replayIdx' = 0
            /\ replayLen' = 0
            /\ sent' = sent
       ELSE IF replayIdx = replayLen
       THEN /\ lpc' = "recv"
            /\ replayIdx' = 0
            /\ replayLen' = 0
            /\ sent' = sent
       ELSE /\ lpc' = "replay"
            /\ replayIdx' = replayIdx + 1
            /\ replayLen' = replayLen
            /\ sent' = SendSubscription(ws, sent, subscriptions[replayIdx + 1].value)
    /\ UNCHANGED <<ws, is_running, subscriptions, callbacks, nConns, nSubs,
                   subDuringReplay, lastSub>>
    /\ UNCHANGED <<execVars, dispVars, botVars, notifyVars>>

\* async for message in self.ws on a closed connection with no frame left
\* in its buffer: ConnectionClosed is raised and listen() sleeps before it
\* loops.
RecvClosedError ==
    /\ lpc = "recv"
    /\ ws = "closed"
    /\ inbox = <<>>
    /\ lpc' = "sleep"
    /\ UNCHANGED <<ws, is_running, subscriptions, callbacks, sent, replayIdx, replayLen,
                   nConns, nSubs, subDuringReplay, lastSub>>
    /\ UNCHANGED <<execVars, dispVars, botVars, notifyVars>>

\* ... or the connection was closed cleanly: the iteration ends and listen()
\* loops at once.
RecvClosedClean ==
    /\ lpc = "recv"
    /\ ws = "closed"
    /\ inbox = <<>>
    /\ lpc' = LoopTop(is_running, ws)
    /\ UNCHANGED <<ws, is_running, subscriptions, callbacks, sent, replayIdx, replayLen,
                   nConns, nSubs, subDuringReplay, lastSub>>
    /\ UNCHANGED <<execVars, dispVars, botVars, notifyVars>>

\* asyncio.sleep(self.reconnect_delay) is over: back to the while test.
SleepDone ==
    /\ lpc = "sleep"
    /\ lpc' = LoopTop(is_running, ws)
    /\ UNCHANGED <<ws, is_running, subscriptions, callbacks, sent, replayIdx, replayLen,
                   nConns, nSubs, subDuringReplay, lastSub>>
    /\ UNCHANGED <<execVars, dispVars, botVars, notifyVars>>

\* The transport drops the open connection.
TransportDrop ==
    /\ ws = "open"
    /\ ws' = "closed"
    /\ UNCHANGED <<is_running, subscriptions, callbacks, sent, lpc, replayIdx, replayLen,
                   nConns, nSubs, subDuringReplay, lastSub>>
    /\ UNCHANGED <<execVars, dispVars, botVars, notifyVars>>

Stop_ForgetsRegistrations ==
    /\ is_running' = FALSE
    /\ ws' = IF ws = "none" THEN "none" ELSE "closed"
    /\ stopped' = TRUE
    /\ subscriptions' = <<>>
    /\ callbacks' = <<>>
    /\ UNCHANGED <<sent, lpc, replayIdx, replayLen, nConns,
                   nSubs, subDuringReplay, lastSub>>
    /\ UNCHANGED <<inbox, nFrames, cur, seq, dispIdx, dispLen, calls, openCalls>>
    /\ UNCHANGED <<execVars, botVars, notifyVars>>

\* stop(): clears is_running and, through disconnect(), closes self.ws;
\* disconnect() called on its own does the same.
Stop ==
    /\ is_running' = FALSE
    /\ ws' = IF ws = "none" THEN "none" ELSE "closed"
    /\ stopped' = TRUE
    /\ UNCHANGED <<subscriptions, callbacks, sent, lpc, replayIdx, replayLen, nConns,
                   nSubs, subDuringReplay, lastSub>>
    /\ UNCHANGED <<inbox, nFrames, cur, seq, dispIdx, dispLen, calls, openCalls>>
    /\ UNCHANGED <<execVars, botVars, notifyVars>>

(***************************************************************************)
(* Inbound frames.  A frame is text: a JSON object with or without a       *)
(* "channel" field, JSON that is not an object (a list, a number), or text *)
(* that is not JSON.  Channels are strings, as the channel keys are.       *)
(***************************************************************************)
UserType == <<"u", "s", "e", "r">>
UnknownChannel == <<"u", "n", "k", "n", "o", "w", "n">>
OtherChannel == <<"o", "r", "d", "e", "r", "s">>

InChannels ==
    {<<>>, UserType, OtherChannel}
    \cup {TradesPrefix \o c : c \in Coins}
    \cup {TradesPrefix \o c \o <<"U", "S", "D">> : c \in Coins}

NoChannel == [kind |-> "object", hasChannel |-> FALSE, channel |-> <<>>]

Messages ==
    {[kind |-> "object", hasChannel |-> TRUE, channel |-> c] : c \in InChannels}
    \cup {NoChannel}
    \cup {[kind |-> k, hasChannel |-> FALSE, channel |-> <<>>] :
            k \in {"malformed", "nonobject"}}

\* json.loads(message) followed by data.get(...): JSONDecodeError on text
\* that is not JSON, AttributeError on JSON that is not an object.
Parses(msg) == msg.kind = "object"

\* data.get("channel", "unknown")
Channel(msg) == IF msg.hasChannel THEN msg.channel ELSE UnknownChannel

\* t in s, for strings
Contains(s, t) ==
    \E i \in 0..(Len(s) - Len(t)) : SubSeq(s, i + 1, i + Len(t)) = t

HasColon(key) == \E i \in 1..Len(key) : key[i] = ":"

\* key.split(":")[0]
BeforeColon(key) ==
    IF HasColon(key)
    THEN LET i == CHOOSE j \in 1..Len(key) :
                      key[j] = ":" /\ \A k \in 1..(j - 1) : key[k] # ":"
         IN SubSeq(key, 1, i - 1)
    ELSE key

\* should_call of _handle_message for a frame on channel and a callback
\* registered under callback_channel.
ShouldCall(channel, callback_channel) ==
    \/ channel = callback_channel
    \/ Contains(channel, callback_channel)
    \/ Contains(callback_channel, channel)
    \/ HasColon(callback_channel) /\ channel = BeforeColon(callback_channel)

NextMatch_DefaultsToFirst(items, channel, from) ==
    LET later == {i \in (from + 1)..Len(items) : ShouldCall(channel, items[i].key)}
    IN IF later = {}
       THEN IF from = 0 /\ Len(items) > 0 THEN 1 ELSE 0
       ELSE CHOOSE i \in later : \A j \in later : i <= j

\* The next item of self.callbacks after index from whose key should be
\* called for channel; 0 when there is none.
NextMatch(items, channel, from) ==
    LET later == {i \in (from + 1)..Len(items) : ShouldCall(channel, items[i].key)}
    IN IF later = {} THEN 0 ELSE CHOOSE i \in later : \A j \in later : i <= j

Invocation(items, i) ==
    [key |-> items[i].key, handler |-> items[i].value, end |-> "running"]

\* Where listen() stands when _handle_message has returned for msg: both
\* except clauses of _handle_message swallow, so the loop takes the next frame.
AfterFrame_Reraises(msg) == IF Parses(msg) THEN "recv" ELSE "sleep"

AfterFrame(msg) == "recv"

\* A frame arrives on the open connection and is buffered.
Arrive ==
    /\ ws = "open"
    /\ nFrames < MaxFrames
    /\ \E msg \in Messages : inbox' = Append(inbox, msg)
    /\ nFrames' = nFrames + 1
    /\ UNCHANGED <<cur, seq, dispIdx, dispLen, calls, openCalls, stopped>>
    /\ UNCHANGED <<execVars, wsVars, botVars, notifyVars>>

RecvFrame_WhileHandlerRuns ==
    /\ lpc \in {"recv", "handler"}
    /\ inbox # <<>>
    /\ LET msg == Head(inbox)
           i == IF Parses(msg) THEN NextMatch(callbacks, Channel(msg), 0) ELSE 0
       IN /\ inbox' = Tail(inbox)
          /\ cur' = msg
          /\ seq' = seq + 1
          /\ IF i = 0
             THEN /\ lpc' = AfterFrame(msg)
                  /\ dispIdx' = 0
                  /\ dispLen' = 0
                  /\ calls' = <<>>
                  /\ openCalls' = openCalls
             ELSE /\ lpc' = "handler"
                  /\ dispIdx' = i
                  /\ dispLen' = Len(callbacks)
                  /\ calls' = <<Invocation(callbacks, i)>>
                  /\ openCalls' = openCalls \cup {seq + 1}
    /\ UNCHANGED <<ws, is_running, subscriptions, callbacks, sent, replayIdx, replayLen,
                   nConns, nSubs, subDuringReplay, lastSub>>
    /\ UNCHANGED <<nFrames, stopped>>
    /\ UNCHANGED <<execVars, botVars, notifyVars>>

(***************************************************************************)
(* async for message in self.ws yields the next buffered frame (also after *)
(* the connection closed) and _handle_message runs up to its first await:  *)
(* a frame that does not parse is dropped; else the callbacks are iterated *)
(* and the first one that should be called is invoked; with none, the      *)
(* frame is dropped with a warning.                                        *)
(***************************************************************************)
RecvFrame ==
    /\ lpc = "recv"
    /\ inbox # <<>>
    /\ LET msg == Head(inbox)
           i == IF Parses(msg) THEN NextMatch(callbacks, Channel(msg), 0) ELSE 0
       IN /\ inbox' = Tail(inbox)
          /\ cur' = msg
          /\ seq' = seq + 1
          /\ IF i = 0
             THEN /\ lpc' = AfterFrame(msg)
                  /\ dispIdx' = 0
                  /\ dispLen' = 0
                  /\ calls' = <<>>
                  /\ openCalls' = openCalls
             ELSE /\ lpc' = "handler"
                  /\ dispIdx' = i
                  /\ dispLen' = Len(callbacks)
                  /\ calls' = <<Invocation(callbacks, i)>>
                  /\ openCalls' = openCalls \cup {seq + 1}
    /\ UNCHANGED <<ws, is_running, subscriptions, callbacks, sent, replayIdx, replayLen,
                   nConns, nSubs, subDuringReplay, lastSub>>
    /\ UNCHANGED <<nFrames, stopped>>
    /\ UNCHANGED <<execVars, botVars, notifyVars>>

(***************************************************************************)
(* The awaited handler ends, by returning or by raising (the exception is  *)
(* caught inside the loop over the callbacks), and the loop goes on: the   *)
(* dict iterator raises RuntimeError if self.callbacks changed size since  *)
(* it was made, which the outer except swallows; else the next callback    *)
(* that should be called is invoked; with none left _handle_message        *)
(* returns and listen() takes the next frame.                              *)
(***************************************************************************)
HandlerEnds(how) ==
    /\ lpc = "handler"
    /\ LET done == [calls EXCEPT ![Len(calls)].end = how]
           i == IF Len(callbacks) # dispLen THEN 0
                ELSE NextMatch(callbacks, Channel(cur), dispIdx)
       IN IF i = 0
          THEN /\ lpc' = "recv"
               /\ dispIdx' = 0
               /\ dispLen' = 0
               /\ calls' = done
               /\ openCalls' = openCalls \ {seq}
          ELSE /\ lpc' = "handler"
               /\ dispIdx' = i
               /\ dispLen' = dispLen
               /\ calls' = Append(done, Invocation(callbacks, i))
               /\ openCalls' = openCalls
    /\ UNCHANGED <<ws, is_running, subscriptions, callbacks, sent, replayIdx, replayLen,
                   nConns, nSubs, subDuringReplay, lastSub>>
    /\ UNCHANGED <<inbox, nFrames, cur, seq, stopped>>
    /\ UNCHANGED <<execVars, botVars, notifyVars>>

HandlerReturns == HandlerEnds("returned")

HandlerRaises == HandlerEnds("raised")

WsNext ==
    \/ SubscribeUser
    \/ SubscribeTrades
    \/ SubscribeAllMids
    \/ Run
    \/ ConnectOpened
    \/ ConnectFailed
    \/ ReplayStep
    \/ RecvClosedError
    \/ RecvClosedClean
    \/ SleepDone
    \/ TransportDrop
    \/ Stop

(***************************************************************************)
(* TelegramBot (src/src/telegram_bot/bot.py).  Chat ids are integers; the  *)
(* bot compares them as strings, kept as sequences of characters.          *)
(***************************************************************************)
ChatIds == {7, -7, 70}

DigitChars == <<"0", "1", "2", "3", "4", "5", "6", "7", "8", "9">>

RECURSIVE NatStr(_)
NatStr(n) ==
    IF n < 10 THEN <<DigitChars[n + 1]>>
    ELSE NatStr(n \div 10) \o <<DigitChars[(n % 10) + 1]>>

\* str(n) for an integer
Str(n) == IF n < 0 THEN <<"-">> \o NatStr(0 - n) ELSE NatStr(n)

\* The allowed_chat_id argument of the constructor: an int or a string.
AllowedConfigs ==
    {[isStr |-> FALSE, n |-> 7, s |-> <<>>],
     [isStr |-> TRUE, n |-> 0, s |-> <<"7">>],
     [isStr |-> TRUE, n |-> 0, s |-> <<"-", "7">>]}

\* self.allowed_chat_id = str(allowed_chat_id)
AllowedChatId(config) == IF config.isStr THEN config.s ELSE Str(config.n)

\* The callback attributes the handlers read; all None after construction.
ControlCallbacks == {"on_pause_requested", "on_resume_requested", "on_stop_requested"}
ReadCallbacks == {"get_status_callback", "get_positions_callback", "get_orders_callback"}
BotCallbacks == ControlCallbacks \cup ReadCallbacks

Commands == {"start", "status", "positions", "orders", "pause", "resume", "stop", "pnl"}
ButtonData == {"stop_close", "stop_keep", "stop_cancel", "other"}

\* How an awaited callback ends: it raises, returns, or returns an empty value.
CallbackOutcomes == {"raised", "returned", "empty"}

\* The Telegram API calls one handler makes at most: a command handler its
\* reply and the error reply; _button_callback the answer, the progress
\* text, the final text and the error text.
MaxCommandSends == 2
MaxButtonSends == 4

\* The API calls of one update that raise: none, a single one, or every
\* call from some call on.
SendFailures(n) == {{}} \cup {{i} : i \in 1..n} \cup {i..n : i \in 1..n}

\* The ways the callback a handler awaits can end; a handler that awaits
\* none sees no outcome.
CommandOutcomes(command) ==
    CASE command \in {"start", "pnl", "stop"} -> {"returned"}
      [] command = "orders" -> CallbackOutcomes
      [] OTHER -> CallbackOutcomes \ {"empty"}

ButtonOutcomes(data) ==
    IF data \in {"stop_close", "stop_keep"} THEN CallbackOutcomes \ {"empty"}
    ELSE {"returned"}

NoUpdate == [chat |-> 0, kind |-> "none", data |-> "-"]

\* An awaited Telegram API call, the n-th of its update: reply_text,
\* query.answer or query.edit_message_text; it raises when n is in fails.
Send(api, what, n, fails) ==
    [e |-> api, what |-> what, arg |-> FALSE, ok |-> (n \notin fails)]

\* An awaited callback of the application.
Call(name, arg, out) ==
    [e |-> "call", what |-> name, arg |-> arg, ok |-> (out # "raised")]

CheckAuthorized_Always(chat) == TRUE

\* _check_authorized: str(update.effective_chat.id) against self.allowed_chat_id.
CheckAuthorized(chat) == Str(chat) = allowed_chat_id

AwaitAndReply_RepliesBeforeCall(callback, text, out, fails) ==
    IF callback \notin configured
    THEN <<Send("reply", "not configured", 1, fails)>>
    ELSE IF 1 \in fails
    THEN <<Send("reply", text, 1, fails), Send("reply", "Error", 2, fails)>>
    ELSE IF out = "raised"
    THEN <<Send("reply", text, 1, fails), Call(callback, FALSE, out),
           Send("reply", "Error", 2, fails)>>
    ELSE <<Send("reply", text, 1, fails), Call(callback, FALSE, out)>>

\* The body shared by _status_command, _positions_command, _pause_command
\* and _resume_command once the chat is authorized: the callback is awaited
\* inside try, followed by the reply; the except clause replies the error.
AwaitAndReply(callback, text, out, fails) ==
    IF callback \notin configured
    THEN <<Send("reply", "not configured", 1, fails)>>
    ELSE IF out = "raised"
    THEN <<Call(callback, FALSE, out), Send("reply", "Error", 1, fails)>>
    ELSE IF 1 \in fails
    THEN <<Call(callback, FALSE, out), Send("reply", text, 1, fails),
           Send("reply", "Error", 2, fails)>>
    ELSE <<Call(callback, FALSE, out), Send("reply", text, 1, fails)>>

\* What the handler of a command does, in order.
CommandEffects(chat, command, out, fails) ==
    IF ~CheckAuthorized(chat)
    THEN <<Send("reply", "Unauthorized", 1, fails)>>
    ELSE CASE command = "start" -> <<Send("reply", "help", 1, fails)>>
           [] command = "pnl" -> <<Send("reply", "pnl", 1, fails)>>
           [] command = "stop" -> <<Send("reply", "confirm stop", 1, fails)>>
           [] command = "status" ->
                AwaitAndReply("get_status_callback", "status", out, fails)
           [] command = "positions" ->
                AwaitAndReply("get_positions_callback", "positions", out, fails)
           [] command = "orders" ->
                AwaitAndReply("get_orders_callback",
                              IF out = "empty" THEN "No open orders" ELSE "Open Orders",
                              out, fails)
           [] command = "pause" ->
                AwaitAndReply("on_pause_requested", "Bot Paused", out, fails)
           [] command = "resume" ->
                AwaitAndReply("on_resume_requested", "Bot Resumed", out, fails)

StopButton_AlwaysCloses(data, close_positions, out, fails) ==
    LET head == <<Send("answer", "-", 1, fails), Send("edit", "Stopping bot", 2, fails)>>
    IN IF 2 \in fails \/ "on_stop_requested" \notin configured
       THEN head
       ELSE IF out = "raised"
       THEN head \o <<Call("on_stop_requested", TRUE, out),
                      Send("edit", "Error", 3, fails)>>
       ELSE IF 3 \in fails
       THEN head \o <<Call("on_stop_requested", TRUE, out),
                      Send("edit", "Bot Stopped", 3, fails),
                      Send("edit", "Error", 4, fails)>>
       ELSE head \o <<Call("on_stop_requested", TRUE, out),
                      Send("edit", "Bot Stopped", 3, fails)>>

\* _button_callback for stop_close and stop_keep, query.answer() done and
\* the chat authorized: the progress text; then, if the stop callback is
\* set, the callback inside try followed by the final text, else the error.
StopButton(data, close_positions, out, fails) ==
    LET head == <<Send("answer", "-", 1, fails), Send("edit", "Stopping bot", 2, fails)>>
    IN IF 2 \in fails \/ "on_stop_requested" \notin configured
       THEN head
       ELSE IF out = "raised"
       THEN head \o <<Call("on_stop_requested", close_positions, out),
                      Send("edit", "Error", 3, fails)>>
       ELSE IF 3 \in fails
       THEN head \o <<Call("on_stop_requested", close_positions, out),
                      Send("edit", "Bot Stopped", 3, fails),
                      Send("edit", "Error", 4, fails)>>
       ELSE head \o <<Call("on_stop_requested", close_positions, out),
                      Send("edit", "Bot Stopped", 3, fails)>>

\* What _button_callback does, in order.
ButtonEffects(chat, data, out, fails) ==
    IF 1 \in fails
    THEN <<Send("answer", "-", 1, fails)>>
    ELSE IF ~CheckAuthorized(chat)
    THEN <<Send("answer", "-", 1, fails), Send("edit", "Unauthorized", 2, fails)>>
    ELSE CASE data = "stop_close" -> StopButton(data, TRUE, out, fails)
           [] data = "stop_keep" -> StopButton(data, FALSE, out, fails)
           [] data = "stop_cancel" ->
                <<Send("answer", "-", 1, fails), Send("edit", "Stop cancelled", 2, fails)>>
           [] OTHER -> <<Send("answer", "-", 1, fails)>>

BotInit ==
    /\ \E config \in AllowedConfigs : allowed_chat_id = AllowedChatId(config)
    /\ configured = {}
    /\ update = NoUpdate
    /\ effects = <<>>
    /\ nUpdates = 0

\* The application sets one of the bot's callback attributes.
SetCallback ==
    /\ \E callback \in BotCallbacks \ configured :
           configured' = configured \cup {callback}
    /\ UNCHANGED <<allowed_chat_id, update, effects, nUpdates>>
    /\ UNCHANGED <<execVars, wsVars, dispVars, notifyVars>>

\* The application dispatches one update to its handler, which runs to its
\* end before the next update is taken.
Handled(u, done) ==
    /\ nUpdates < MaxUpdates
    /\ update' = u
    /\ effects' = done
    /\ nUpdates' = nUpdates + 1
    /\ UNCHANGED <<allowed_chat_id, configured>>
    /\ UNCHANGED <<execVars, wsVars, dispVars, notifyVars>>

CommandUpdate ==
    \E chat \in ChatIds, command \in Commands :
    \E out \in CommandOutcomes(command), fails \in SendFailures(MaxCommandSends) :
        Handled([chat |-> chat, kind |-> "command", data |-> command],
                CommandEffects(chat, command, out, fails))

ButtonUpdate ==
    \E chat \in ChatIds, data \in ButtonData :
    \E out \in ButtonOutcomes(data), fails \in SendFailures(MaxButtonSends) :
        Handled([chat |-> chat, kind |-> "button", data |-> data],
                ButtonEffects(chat, data, out, fails))

BotNext ==
    \/ SetCallback
    \/ CommandUpdate
    \/ ButtonUpdate

(***************************************************************************)
(* NotificationService (src/src/telegram_bot/notifications.py).  Every     *)
(* send_* method formats its text and awaits send_message; send_message    *)
(* tests self.enabled and then awaits bot.send_message, so enable(),       *)
(* disable() and other sends can run while a delivery is in flight.        *)
(***************************************************************************)
NotificationKinds ==
    {"message", "trade", "position_close", "hourly_report", "error", "startup",
     "shutdown"}

DeliveryOutcomes == {"ok", "raise"}

SendStart_IgnoresEnabled(en) == "inflight"

\* send_message up to its await: False at once when disabled.
SendStart(en) == IF ~en THEN "False" ELSE "inflight"

\* send_message after its await: True, or False when bot.send_message raised.
SendEnd(outcome) == IF outcome = "ok" THEN "True" ELSE "False"

NotifyInit ==
    /\ enabled = TRUE
    /\ sends = <<>>

Enable ==
    /\ enabled' = TRUE
    /\ UNCHANGED sends
    /\ UNCHANGED <<execVars, wsVars, dispVars, botVars>>

Disable ==
    /\ enabled' = FALSE
    /\ UNCHANGED sends
    /\ UNCHANGED <<execVars, wsVars, dispVars, botVars>>

\* send_message is called, directly or by one of the send_* methods.
SendMessage ==
    /\ Len(sends) < MaxSends
    /\ \E kind \in NotificationKinds :
          sends' = Append(sends, [kind |-> kind, at |-> enabled, outcome |-> "none",
                                  result |-> SendStart(enabled)])
    /\ UNCHANGED enabled
    /\ UNCHANGED <<execVars, wsVars, dispVars, botVars>>

\* bot.send_message of a call in flight ends: the text reached the chat, or
\* the call raised.
Delivery ==
    /\ \E i \in 1..Len(sends), outcome \in DeliveryOutcomes :
          /\ sends[i].result = "inflight"
          /\ sends' = [sends EXCEPT ![i].outcome = outcome, ![i].result = SendEnd(outcome)]
    /\ UNCHANGED enabled
    /\ UNCHANGED <<execVars, wsVars, dispVars, botVars>>

NotifyNext ==
    \/ Enable
    \/ Disable
    \/ SendMessage
    \/ Delivery

(***************************************************************************)
(* Specifications.  ExecSpec runs one executor with the stream and the bot  *)
(* left as constructed; WsSpec runs one stream, with no inbound frames,    *)
(* beside a dry-run executor that is never called; Spec runs all three.    *)
(***************************************************************************)
IdleExecutor ==
    /\ ExecInit
    /\ dry_run
    /\ private_key = ""
    /\ wallet_address = "0xa"

\* A bot that is constructed and receives no update.
IdleBot ==
    /\ BotInit
    /\ allowed_chat_id = Str(7)

Init == ExecInit /\ WsInit /\ BotInit /\ NotifyInit
Next == ExecNext \/ WsNext \/ BotNext \/ NotifyNext
Spec == Init /\ [][Next]_vars

ExecSpecInit == ExecInit /\ WsInit /\ IdleBot /\ NotifyInit
ExecSpec == ExecSpecInit /\ [][ExecNext]_vars

WsSpecInit == IdleExecutor /\ WsInit /\ IdleBot /\ NotifyInit
WsSpec == WsSpecInit /\ [][WsNext]_vars

(***************************************************************************)
(* RestartSpec: one stream on a transport that never drops an open         *)
(* connection, so that a connection is closed by stop() only and a second  *)
(* connection is opened only by a run() that follows a stop().             *)
(***************************************************************************)
RestartNext ==
    \/ SubscribeUser
    \/ SubscribeTrades
    \/ SubscribeAllMids
    \/ Run
    \/ ConnectOpened
    \/ ConnectFailed
    \/ ReplayStep
    \/ RecvClosedError
    \/ RecvClosedClean
    \/ SleepDone
    \/ Stop

RestartSpecInit == IdleExecutor /\ WsInit /\ IdleBot /\ NotifyInit
RestartSpec == RestartSpecInit /\ [][RestartNext]_vars

(***************************************************************************)
(* DispatchSpec: one stream with inbound frames, used by an application    *)
(* that subscribes before run() and from its handlers; the connection is   *)
(* opened once and stays up.                                               *)
(***************************************************************************)
SubscribeAtStartOrInHandler ==
    /\ lpc \in {"idle", "handler"}
    /\ \/ SubscribeUser
       \/ SubscribeTrades
       \/ SubscribeAllMids

DispatchNext ==
    \/ SubscribeAtStartOrInHandler
    \/ Run
    \/ ConnectOpened
    \/ ReplayStep
    \/ Arrive
    \/ RecvFrame
    \/ HandlerReturns
    \/ HandlerRaises

DispatchSpecInit == IdleExecutor /\ WsInit /\ IdleBot /\ NotifyInit
DispatchSpec == DispatchSpecInit /\ [][DispatchNext]_vars

(***************************************************************************)
(* LoopSpec: the listen loop under stop(), drops, failed connects and      *)
(* inbound frames, with one trades subscription made before the first      *)
(* run().  The event loop runs every coroutine that can run, so each step  *)
(* of listen() that is enabled is eventually taken: a connect attempt      *)
(* ends, a sleep ends, a buffered frame is taken, a closed connection is   *)
(* noticed.  Nothing makes a handler return.                               *)
(***************************************************************************)
SubscribeAtStart ==
    /\ lpc = "idle"
    /\ ~stopped
    /\ SubscribeTrades

LoopNext ==
    \/ SubscribeAtStart
    \/ Run
    \/ ConnectOpened
    \/ ConnectFailed
    \/ ReplayStep
    \/ RecvClosedError
    \/ RecvClosedClean
    \/ SleepDone
    \/ TransportDrop
    \/ Stop
    \/ Arrive
    \/ RecvFrame
    \/ HandlerReturns
    \/ HandlerRaises

ListenStep ==
    \/ ConnectOpened
    \/ ConnectFailed
    \/ ReplayStep
    \/ RecvClosedError
    \/ RecvClosedClean
    \/ SleepDone
    \/ RecvFrame

LoopSpecInit == IdleExecutor /\ WsInit /\ IdleBot /\ NotifyInit
LoopSpec == LoopSpecInit /\ [][LoopNext]_vars /\ WF_vars(ListenStep)

(***************************************************************************)
(* BotSpec: one Telegram bot whose application sets its callbacks and      *)
(* hands it updates one at a time, beside an idle executor and stream.     *)
(***************************************************************************)
BotSpecInit == IdleExecutor /\ WsInit /\ BotInit /\ NotifyInit
BotSpec == BotSpecInit /\ [][BotNext]_vars

\* NotifySpec: one notification service beside idle components.
NotifySpecInit == IdleExecutor /\ WsInit /\ IdleBot /\ NotifyInit
NotifySpec == NotifySpecInit /\ [][NotifyNext]_vars

(***************************************************************************)
(* Properties of the executor (checked under ExecSpec).                    *)
(***************************************************************************)
Live == ~dry_run
OrderOps == {"execute_market_order", "execute_limit_order"}
OrderPosts(reqs) == {i \in 1..Len(reqs) : reqs[i].action.type = "order"}
RepliedOk(out) == out.kind = "http" /\ out.http = HttpOk /\ out.body.status = "ok"
RepliedEntry(out, kind) ==
    /\ RepliedOk(out)
    /\ out.body.hasData
    /\ out.body.statuses # <<>>
    /\ out.body.statuses[1].kind = kind

\* C1: the nonces _sign_action returns are strictly increasing in call
\* order, also for two calls within the same millisecond.
C1_NoncesStrictlyIncreasing ==
    \A i, j \in 1..Len(nonces) : i < j => nonces[i] < nonces[j]

\* C2: in dry-run mode no call of the five public operations issues an HTTP
\* request: the count of POSTs stays 0 and the last call sent nothing.
C2_DryRunNoHttp ==
    dry_run => (httpCalls = 0 /\ last.reqs = <<>>)

C2_Witness ==
    /\ dry_run
    /\ nCalls >= 2
    /\ last.op = "cancel_order"
    /\ Len(simIds) >= 1

\* C3: one live execute_market_order or execute_limit_order call POSTs its
\* order at most once, whatever the outcome of the POST.
C3_OrderSentAtMostOnce ==
    (Live /\ last.op \in OrderOps) => Cardinality(OrderPosts(last.reqs)) <= 1

C3_Witness ==
    /\ Live
    /\ last.op = "execute_market_order"
    /\ last.out = Raised
    /\ Cardinality(OrderPosts(last.reqs)) = 1
    /\ last.result = None3

\* C4: a live order placement returns a non-None order id only if the
\* exchange replied with HTTP 200 and body status "ok".
C4_SuccessOnlyOn200Ok ==
    (Live /\ last.op \in OrderOps /\ last.result # None3) => RepliedOk(last.out)

\* C5: a live order answered with HTTP 200, status "ok" and a filled entry
\* returns the filled order's id.
C5_FilledIsSuccess ==
    (Live /\ last.op \in OrderOps /\ RepliedEntry(last.out, "filled"))
        => last.result = OidResult(last.out.body.statuses[1].oid)

\* C6: a live order answered with HTTP 200, status "ok" and a per-order
\* error entry returns the failure value, never an order id.
C6_ErrorEntryIsFailure ==
    (Live /\ last.op \in OrderOps /\ RepliedEntry(last.out, "error"))
        => last.result = None3

C6_Witness ==
    /\ Live
    /\ last.op = "execute_market_order"
    /\ RepliedEntry(last.out, "error")
    /\ last.result = None3

\* C7: any two dry-run order placements of one executor return distinct
\* synthetic order ids, also for the same symbol within the same second.
C7_SimIdsDistinct ==
    \A i, j \in 1..Len(simIds) : i < j => simIds[i] # simIds[j]

LeveragePosts(reqs) == {i \in 1..Len(reqs) : reqs[i].action.type = "updateLeverage"}
Opposite(side) == IF side = "buy" THEN "sell" ELSE "buy"

\* The value a public operation returns when it failed.
FailureValue(op) ==
    CASE op \in {"cancel_order", "_update_leverage"} -> BoolResult(FALSE)
      [] op = "cancel_all_orders" -> CountResult(0)
      [] OTHER -> None3

\* C21: construction in live mode fails without a signing key and with a
\* key whose address differs from the wallet address, so every live executor
\* holds the account of its key, whose address is its wallet address.
C21_LiveHoldsMatchingAccount ==
    /\ \A w \in Wallets, k \in Keys :
           (k = "" \/ Lower(KeyAddress(k)) # Lower(w)) => Construct(w, k, FALSE).raised
    /\ Live => /\ private_key # ""
               /\ account = private_key
               /\ Lower(KeyAddress(account)) = wallet_address

C21_Witness ==
    /\ Live
    /\ account = "kB"
    /\ wallet_address = "0xb"
    /\ last.op = "execute_market_order"
    /\ Len(last.reqs) = 1

\* C22: a live order placement whose leverage update failed (a reply other
\* than 200, or an exception) still sends its order request, exactly once.
C22_OrderSentAfterLeverageFailure ==
    (Live /\ last.op \in OrderOps /\ last.leverage > 1 /\ LeverageFailed(last.levOut))
        => Cardinality(OrderPosts(last.reqs)) = 1

C22_Witness ==
    /\ Live
    /\ last.op = "execute_market_order"
    /\ last.leverage > 1
    /\ last.levOut = Raised
    /\ Cardinality(OrderPosts(last.reqs)) = 1
    /\ last.result = OidResult(77)

\* C23: in a live order placement the leverage update, when there is one,
\* is sent and answered before the order request is sent: it comes first in
\* the call's requests and is signed no later than the order.
C23_LeverageBeforeOrder ==
    (Live /\ last.op \in OrderOps) =>
        /\ (LeveragePosts(last.reqs) # {}) = (last.leverage > 1)
        /\ LeveragePosts(last.reqs) # {} => last.levOut # NoCall
        /\ \A i \in LeveragePosts(last.reqs), j \in OrderPosts(last.reqs) :
               i < j /\ last.reqs[i].nonce <= last.reqs[j].nonce

C23_Witness ==
    /\ Live
    /\ last.op = "execute_limit_order"
    /\ LeveragePosts(last.reqs) = {1}
    /\ OrderPosts(last.reqs) = {2}
    /\ last.reqs[1].nonce < last.reqs[2].nonce

\* C24: a live market order is sent with price 0 and time-in-force Ioc; a
\* live limit order with its price and Gtc, or Alo exactly when post_only.
C24_PriceAndTimeInForce ==
    Live => \A i \in OrderPosts(last.reqs) :
        LET a == last.reqs[i].action IN
        IF last.op = "execute_limit_order"
        THEN /\ a.p = FloatStr(last.price)
             /\ a.tif = (IF last.post_only THEN "Alo" ELSE "Gtc")
        ELSE /\ a.p = Literal(0)
             /\ a.tif = "Ioc"

C24_Witness ==
    /\ Live
    /\ last.op = "execute_limit_order"
    /\ last.post_only
    /\ \E i \in OrderPosts(last.reqs) : last.reqs[i].action.tif = "Alo"

\* C25 as stated: a live close_position sends exactly one market order,
\* reduce-only, on the side opposite to the side it was given.
C25_ClosesOppositeSide ==
    (Live /\ last.op = "close_position") =>
        /\ Len(last.reqs) = 1
        /\ OrderPosts(last.reqs) = {1}
        /\ last.reqs[1].action.r
        /\ last.reqs[1].action.b = (Opposite(last.side) = "buy")

\* C25 as amended: a live close_position sends exactly one market order
\* (price 0, Ioc), reduce-only, on the side it was given.
C25_ClosesGivenSideReduceOnly ==
    (Live /\ last.op = "close_position") =>
        /\ Len(last.reqs) = 1
        /\ OrderPosts(last.reqs) = {1}
        /\ last.reqs[1].action.r
        /\ last.reqs[1].action.b = (last.side = "buy")
        /\ last.reqs[1].action.p = Literal(0)
        /\ last.reqs[1].action.tif = "Ioc"

C25_Witness ==
    /\ Live
    /\ last.op = "close_position"
    /\ last.side = "sell"
    /\ Len(last.reqs) = 1
    /\ last.reqs[1].action.r
    /\ ~last.reqs[1].action.b

\* C26: a live call whose POST raised returns its failure value (None,
\* False or 0) and never raises to its caller; a leverage POST that raised
\* leaves the order to its own reply; and a call made after one that hit an
\* exception returns what its own reply says.
C26_TransportErrorContained ==
    (Live /\ last.op # "none") =>
        /\ last.result # Propagated
        /\ last.out = Raised => last.result = FailureValue(last.op)
        /\ (last.levOut = Raised /\ last.op \in OrderOps) =>
               /\ OrderPosts(last.reqs) # {}
               /\ RepliedEntry(last.out, "resting")
                      => last.result = OidResult(last.out.body.statuses[1].oid)
        /\ (last.afterFault /\ last.out.kind = "http" /\ last.out.http = HttpOk) =>
               /\ last.op = "cancel_order" => last.result = BoolResult(TRUE)
               /\ last.op = "cancel_all_orders"
                      => last.result = CountResult(Len(last.out.body.statuses))
               /\ (last.op \in OrderOps /\ RepliedEntry(last.out, "resting"))
                      => last.result = OidResult(last.out.body.statuses[1].oid)

C26_Witness ==
    /\ Live
    /\ last.afterFault
    /\ last.op = "cancel_all_orders"
    /\ last.out.kind = "http"
    /\ last.out.http = HttpOk
    /\ last.result = CountResult(2)

C35_DryRunCannotSign ==
    dry_run =>
        /\ account = "none"
        /\ signatures = {}
        /\ nonces = <<>>
        /\ httpCalls = 0
        /\ last.reqs = <<>>
        /\ last.result # Propagated
        /\ last.op = "_update_leverage" => last.result = BoolResult(FALSE)

\* A dry-run executor constructed with a private key, after a public call
\* and a leverage update that tried to sign.
C35_Witness ==
    /\ dry_run
    /\ private_key # ""
    /\ nCalls = 2
    /\ simIds # <<>>
    /\ last.op = "_update_leverage"
    /\ last.result = BoolResult(FALSE)

Invocations(done) == {i \in 1..Len(done) : done[i].e = "call"}
StopInvocations(done) ==
    {i \in Invocations(done) : done[i].what = "on_stop_requested"}
FromAllowedChat == Str(update.chat) = allowed_chat_id

\* C27: the handler of a command or button press that comes from a chat
\* other than the allowed one invokes no callback of the application.
C27_UnauthorizedInvokesNothing ==
    (update.kind # "none" /\ ~FromAllowedChat) => Invocations(effects) = {}

C27_Witness ==
    /\ update.kind = "button"
    /\ update.data = "stop_close"
    /\ ~FromAllowedChat
    /\ "on_stop_requested" \in configured
    /\ Len(effects) = 2
    /\ effects[2].what = "Unauthorized"
    /\ effects[2].ok

\* C28: the stop callback is invoked only for a press of the Close
\* Positions or Keep Positions button from the allowed chat, with
\* close_positions True for the first and False for the second, and at most
\* once per press; never for the /stop command or the cancel button.
C28_StopOnlyByConfirmation ==
    /\ Cardinality(StopInvocations(effects)) <= 1
    /\ StopInvocations(effects) # {} =>
           /\ update.kind = "button"
           /\ update.data \in {"stop_close", "stop_keep"}
           /\ FromAllowedChat
           /\ \A i \in StopInvocations(effects) :
                  effects[i].arg = (update.data = "stop_close")

C28_Witness ==
    /\ update.kind = "button"
    /\ update.data = "stop_keep"
    /\ FromAllowedChat
    /\ \E i \in StopInvocations(effects) : ~effects[i].arg /\ effects[i].ok

\* The texts that report a control operation as done, and the callback each
\* one reports on.
DoneTexts == {"Bot Paused", "Bot Resumed", "Bot Stopped"}
CallbackOf(text) ==
    CASE text = "Bot Paused" -> "on_pause_requested"
      [] text = "Bot Resumed" -> "on_resume_requested"
      [] OTHER -> "on_stop_requested"
DoneReports(done) ==
    {i \in 1..Len(done) : done[i].e # "call" /\ done[i].what \in DoneTexts}

\* C37: a handler sends "Bot Paused", "Bot Resumed" or "Bot Stopped" only
\* after it has awaited the corresponding callback and the callback returned;
\* when a control callback raised, the handler sends an error text after it
\* and none of the three texts.
C37_DoneOnlyAfterCallbackReturned ==
    /\ \A i \in DoneReports(effects) :
          \E j \in Invocations(effects) :
              /\ j < i
              /\ effects[j].what = CallbackOf(effects[i].what)
              /\ effects[j].ok
    /\ \A j \in Invocations(effects) :
          (effects[j].what \in ControlCallbacks /\ ~effects[j].ok) =>
              /\ DoneReports(effects) = {}
              /\ \E i \in (j + 1)..Len(effects) :
                    effects[i].e # "call" /\ effects[i].what = "Error"

\* /pause from the allowed chat with a callback that raises: the callback
\* was awaited and the error text was sent, and nothing else.
C37_Witness ==
    /\ update.kind = "command"
    /\ update.data = "pause"
    /\ FromAllowedChat
    /\ Len(effects) = 2
    /\ effects[1].e = "call" /\ effects[1].what = "on_pause_requested" /\ ~effects[1].ok
    /\ effects[2].e = "reply" /\ effects[2].what = "Error" /\ effects[2].ok

(***************************************************************************)
(* Properties of the notification service (checked under NotifySpec).      *)
(***************************************************************************)
\* C38: a send_message call made while notifications are disabled returns
\* False and its text is never delivered, whatever kind of notification it
\* carries; a call made while they are enabled (at first, or again after
\* enable()) attempts the delivery and returns True exactly when the text
\* was delivered; a delivery that fails makes the call return False, and no
\* call raises.
C38_DisabledSendsNothing ==
    \A i \in 1..Len(sends) :
        /\ sends[i].result \in {"inflight", "True", "False"}
        /\ ~sends[i].at => (sends[i].result = "False" /\ sends[i].outcome = "none")
        /\ sends[i].at => (sends[i].result = "inflight" <=> sends[i].outcome = "none")
        /\ sends[i].result = "True" <=> sends[i].outcome = "ok"
        /\ sends[i].outcome = "raise" => sends[i].result = "False"

\* disable(), a send that returns False with nothing delivered, enable(), a
\* send whose delivery fails and returns False, and a send that is delivered.
C38_Witness ==
    /\ Len(sends) = 3
    /\ ~sends[1].at /\ sends[1].result = "False" /\ sends[1].outcome = "none"
    /\ sends[2].at /\ sends[2].outcome = "raise" /\ sends[2].result = "False"
    /\ sends[3].at /\ sends[3].outcome = "ok" /\ sends[3].result = "True"
    /\ sends[1].kind = "trade"
    /\ sends[3].kind = "trade"

(***************************************************************************)
(* Properties of the stream (checked under WsSpec).                        *)
(***************************************************************************)
Registered(items) == {items[i].value : i \in 1..Len(items)}

\* connect() returns normally to listen() on a connection that is open.
ConnectReturns ==
    /\ lpc \in {"opening", "replay"}
    /\ lpc' = "recv"
    /\ ws' = "open"

C9_AtMostOncePerConnection ==
    \A f \in Frames : sent[f] <= 1

\* C10: a subscribe call made on an open connection sends its frame in the
\* call; one made with no open connection sends nothing, and its frame has
\* been sent when the next connect() returns on a live connection.
C10_ImmediateOrDeferred ==
    [][/\ (nSubs' = nSubs + 1) =>
              IF ws = "open"
              THEN sent' = [sent EXCEPT ![lastSub'.data] = @ + 1]
              ELSE sent' = sent
       /\ ConnectReturns => \A f \in Registered(subscriptions') : sent'[f] >= 1]_vars

C10_Witness ==
    /\ lastSub.n > 0
    /\ lastSub.wsBefore = "closed"
    /\ lastSub.conn < nConns
    /\ lpc = "recv"
    /\ ws = "open"
    /\ sent[lastSub.data] >= 1

\* C29: when a subscribe call ran while connect() was replaying and listen()
\* is receiving on that connection, every registered subscription (those
\* registered before the connect and the new one) was sent on it.
C29_ReplayCompleteDespiteSubscribe ==
    (subDuringReplay /\ lpc = "recv" /\ ws = "open")
        => \A f \in Registered(subscriptions) : sent[f] >= 1

\* The entries of a dict under one key, and its entries under the other keys.
EntriesOf(items, key) == {i \in 1..Len(items) : items[i].key = key}
OtherEntries(items, key) == {items[i] : i \in 1..Len(items) \ EntriesOf(items, key)}
DistinctKeys(items) ==
    \A i, j \in 1..Len(items) : items[i].key = items[j].key => i = j

\* C32: the stream holds at most one subscription and one handler per channel
\* key; a subscribe call leaves exactly one subscription for its channel (the
\* one given), leaves the other channels as they were, stores the handler it
\* is given as the channel's only handler, and with no handler given leaves
\* the handlers as they were.
C32_OneRegistrationPerChannel ==
    [][/\ DistinctKeys(subscriptions') /\ DistinctKeys(callbacks')
       /\ (nSubs' = nSubs + 1) =>
            LET key == lastSub'.key IN
            /\ \E i \in 1..Len(subscriptions') :
                  /\ EntriesOf(subscriptions', key) = {i}
                  /\ subscriptions'[i].value = lastSub'.data
            /\ OtherEntries(subscriptions', key) = OtherEntries(subscriptions, key)
            /\ OtherEntries(callbacks', key) = OtherEntries(callbacks, key)
            /\ IF lastSub'.callback = NoHandler
               THEN callbacks' = callbacks
               ELSE \E i \in 1..Len(callbacks') :
                      /\ EntriesOf(callbacks', key) = {i}
                      /\ callbacks'[i].value = lastSub'.callback]_vars

\* One channel subscribed three times, the last time with no handler: one
\* subscription, the handler given before is kept, and the connect() that
\* followed replayed one frame for it.
C32_Witness ==
    /\ nSubs = 3
    /\ Len(subscriptions) = 1
    /\ callbacks = <<[key |-> lastSub.key, value |-> "h2"]>>
    /\ lastSub.callback = NoHandler
    /\ lastSub.conn < nConns
    /\ lpc = "recv"
    /\ ws = "open"
    /\ sent[lastSub.data] = 1

(***************************************************************************)
(* Properties of a stream that is stopped and run again (RestartSpec).     *)
(***************************************************************************)
KeysOf(items) == {items[i].key : i \in 1..Len(items)}

\* C33: only a subscribe call changes the registered subscriptions and
\* handlers (stop() and disconnect() leave them as they are), no step removes
\* a registered channel, and when the connect() of a run() that follows a
\* stop() returns on a live connection every subscription registered so far
\* has been sent on it.
C33_RegistrationsSurviveStop ==
    [][/\ (nSubs' = nSubs) => (subscriptions' = subscriptions /\ callbacks' = callbacks)
       /\ KeysOf(subscriptions) \subseteq KeysOf(subscriptions')
       /\ KeysOf(callbacks) \subseteq KeysOf(callbacks')
       /\ ConnectReturns => \A f \in Registered(subscriptions') : sent'[f] >= 1]_vars

\* The stream was connected, stopped and run again: its second connection
\* is open and carries every subscription, those registered before the
\* stop() included.
C33_Witness ==
    /\ nConns = 2
    /\ lpc = "recv"
    /\ ws = "open"
    /\ Len(subscriptions) >= 2
    /\ Len(callbacks) >= 1
    /\ lastSub.conn = 1
    /\ \A f \in Registered(subscriptions) : sent[f] >= 1

(***************************************************************************)
(* Properties of the listen loop (checked under LoopSpec).                 *)
(***************************************************************************)
\* listen() has to connect: the stream is marked running and the loop holds
\* no open connection (it was lost, or the last attempt failed).
NeedsConnect ==
    /\ is_running
    /\ ws # "open"
    /\ lpc \notin {"idle", "opening"}

ConnectAttempt == lpc = "opening"

\* C11: once stop() has been invoked (and until a new run()), the stream is
\* not marked running, no connection is opened and the frames taken from
\* then on invoke no handler.
C11_NoActivityAfterStop ==
    [][(stopped /\ stopped') =>
          /\ ~is_running'
          /\ nConns' = nConns
          /\ (seq' > seq => calls' = <<>>)]_vars

\* C12: while the stream is marked running, a lost connection or a failed
\* connect attempt is eventually followed by a connect attempt.
C12_EventuallyRetries ==
    NeedsConnect ~> (ConnectAttempt \/ ~is_running)

\* C13: a connect attempt that follows the loss of an established connection
\* is made from the backoff sleep, after an error and after a clean close.
C13_BackoffBeforeReconnect ==
    [][(lpc \notin {"idle", "opening"} /\ ws = "closed" /\ ConnectAttempt')
          => lpc = "sleep"]_vars

\* C17: while a handler is being awaited, the frames that have arrived are
\* still taken and a lost connection still leads to a connect attempt.
C17_SlowHandlerDoesNotStall ==
    /\ (lpc = "handler" /\ inbox # <<>>) ~> (inbox = <<>>)
    /\ (lpc = "handler" /\ NeedsConnect) ~> (ConnectAttempt \/ ~is_running)

\* C31: once stop() has been invoked, the listen() loop eventually returns
\* (or the stream is started again by a new run()).
C31_ListenReturnsAfterStop ==
    stopped ~> (lpc = "idle" \/ ~stopped)

(***************************************************************************)
(* Properties of the dispatch (checked under DispatchSpec).                *)
(***************************************************************************)
\* The frame's channel equals the key or is the type prefix of the key.
StructuralMatch(channel, key) ==
    \/ channel = key
    \/ HasColon(key) /\ channel = BeforeColon(key)

TakesFrame == seq' = seq + 1
FrameDone == lpc = "handler" /\ lpc' = "recv"
InvokedFor(entries, key) == {j \in 1..Len(entries) : entries[j].key = key}

\* C14: every handler invoked for a frame is registered under a key that
\* the frame's channel equals or is the type prefix of.
C14_StructuralMatchOnly ==
    \A j \in 1..Len(calls) : StructuralMatch(Channel(cur), calls[j].key)

\* C15: when the dispatch of a frame is over, every handler that was
\* registered when it began and matches the frame was invoked exactly once.
C15_AllMatchesOnce ==
    [][FrameDone =>
          \A i \in 1..dispLen :
              ShouldCall(Channel(cur), callbacks[i].key)
                  => Cardinality(InvokedFor(calls', callbacks[i].key)) = 1]_vars

\* C16: when a handler raised during the dispatch of a frame, the other
\* matching handlers were still invoked for it, and the loop is back at
\* receiving on the same connection with the buffered frames untouched.
C16_HandlerExceptionIsolated ==
    [][(FrameDone /\ \E j \in 1..Len(calls') : calls'[j].end = "raised") =>
          /\ \A i \in 1..dispLen :
                 ShouldCall(Channel(cur), callbacks[i].key)
                     => InvokedFor(calls', callbacks[i].key) # {}
          /\ ws' = ws
          /\ is_running' = is_running
          /\ inbox' = inbox]_vars

\* C30: when a handler registered a subscription with a handler for a new
\* channel while a frame was being dispatched, every handler registered when
\* the dispatch began that matches the frame has been invoked for it when
\* the dispatch is over.
C30_HandlerSubscribeKeepsDispatch ==
    [][(FrameDone /\ Len(callbacks) > dispLen) =>
          \A i \in 1..dispLen :
              ShouldCall(Channel(cur), callbacks[i].key)
                  => InvokedFor(calls', callbacks[i].key) # {}]_vars

\* C18: frames are taken in arrival order, and a frame is taken only when
\* every handler invocation of the frames before it has ended.
C18_ArrivalOrder ==
    [][/\ TakesFrame => /\ openCalls = {}
                        /\ cur' = Head(inbox)
                        /\ inbox' = Tail(inbox)
       /\ openCalls' \subseteq {seq'}]_vars

C18_Witness ==
    /\ seq = 2
    /\ openCalls = {2}
    /\ lpc = "handler"
    /\ inbox = <<>>

\* C19: a frame that is not a JSON object invokes no handler and leaves the
\* loop receiving on the same connection; the frame after it is dispatched
\* as any other.
C19_MalformedDropped ==
    [][/\ (TakesFrame /\ ~Parses(Head(inbox))) =>
              /\ calls' = <<>>
              /\ openCalls' = {}
              /\ lpc' = "recv"
              /\ ws' = ws
              /\ is_running' = is_running
              /\ inbox' = Tail(inbox)
       /\ (TakesFrame /\ seq > 0 /\ ~Parses(cur) /\ Parses(Head(inbox))) =>
              LET i == NextMatch(callbacks, Channel(Head(inbox)), 0)
              IN i # 0 => (lpc' = "handler" /\ calls' = <<Invocation(callbacks, i)>>)]_vars

C19_Witness ==
    /\ seq > 0
    /\ ~Parses(cur)
    /\ callbacks # <<>>
    /\ calls = <<>>
    /\ lpc = "recv"
    /\ ws = "open"
    /\ inbox # <<>>
    /\ NextMatch(callbacks, Channel(Head(inbox)), 0) # 0

====
